---------------------------- MODULE Spec2Model ----------------------------
(***************************************************************************)
(* The co2meter USB driver (drivers/usb/misc/co2meter.c) as a state        *)
(* machine: the USB core thread running co2meter_probe and                 *)
(* co2meter_disconnect, the work item running co2meter_handle_input, and   *)
(* the processes calling co2meter_open / co2meter_read / co2meter_release. *)
(* Every statement of the driver that touches shared state (the guard, the *)
(* ready flag, co2_level, the work item, the interface data, the minor) is *)
(* one step, so that the interleavings of the threads are explored.        *)
(***************************************************************************)
EXTENDS Integers, Sequences, FiniteSets, TLC

(***************************************************************************)
(* Bounds of the model.                                                    *)
(***************************************************************************)
\* DeviceStates allocated over a run (attach/detach cycles explored).
MaxAttach == 2
\* Processes that open the device node concurrently.
NumFiles == 1

(***************************************************************************)
(* Program constants.                                                      *)
(***************************************************************************)
CO2METER_DATA_SIZE == 32
\* bytes are u8: the width of buf[i]
ByteMod == 256

Gens == 1..MaxAttach
Files == 1..NumFiles

\* Owners of dev->lock.
NoOwner == <<"none", 0>>
WorkOwner == <<"work", 0>>
UsbOwner == <<"usb", 0>>
OpenOwner(f) == <<"open", f>>

(***************************************************************************)
(* What usb_bulk_msg can deliver into the zeroed 16-byte buffer: retval,   *)
(* transfer_size and buf[0..4] (b[1..5] here; buf[5..15] are never read).  *)
(***************************************************************************)
Xfer(r, n, b) == [retval |-> r, size |-> n, b |-> b]

NoXfer == Xfer(0, 0, <<>>)

Transfers ==
    { Xfer(-110, 5, <<80, 1, 144, 225, 13>>),   \* transport error (timeout)
      Xfer(0, 4, <<80, 2, 0, 82, 0>>),          \* short transfer
      Xfer(0, 5, <<81, 1, 144, 226, 13>>),      \* wrong header
      Xfer(0, 5, <<80, 1, 144, 145, 13>>),      \* checksum mismatch
      Xfer(0, 5, <<80, 1, 144, 225, 10>>),      \* wrong terminator
      Xfer(0, 5, <<80, 1, 144, 225, 13>>),      \* reading 400
      Xfer(0, 5, <<80, 2, 0, 82, 13>>),         \* reading 512
      Xfer(0, 5, <<80, 3, 232, 59, 13>>) }      \* reading 1000, sum > 255

\* Values the memory of a released DeviceState may hold when it is read.
FreedWords == {0, 107}

\* The byte counts callers pass to read: byte by byte, or a whole buffer.
ReadCounts == {1, CO2METER_DATA_SIZE}

(***************************************************************************)
(* The frame decoder: the condition of the if statement of                 *)
(* co2meter_handle_input.  buf[i] are u8 and are promoted to int before    *)
(* the addition, so the sum is not reduced modulo 256.                     *)
(***************************************************************************)
\* faulty variant, for mutation analysis: the terminator is not checked
AcceptsNoTerminator(x) ==
    /\ x.retval = 0
    /\ x.size >= 5
    /\ x.b[1] = 80
    /\ x.b[1] + x.b[2] + x.b[3] = x.b[4]

Accepts(x) ==
    /\ x.retval = 0
    /\ x.size >= 5
    /\ x.b[1] = 80
    /\ x.b[1] + x.b[2] + x.b[3] = x.b[4]
    /\ x.b[5] = 13

\* faulty variant, for mutation analysis: the bytes of the reading swapped
ReadingSwapped(x) == (x.b[3] * 256) + x.b[2]

\* dev->co2_level = (buf[1] * 256) + buf[2]: two u8 operands promoted to int,
\* at most 255 * 256 + 255, which the u32 co2_level holds without wrapping
Reading(x) == (x.b[2] * 256) + x.b[3]

(***************************************************************************)
(* scnprintf(buf, CO2METER_DATA_SIZE, "%u\n", level): the decimal digits   *)
(* of level and a newline, cut to CO2METER_DATA_SIZE - 1 characters.       *)
(***************************************************************************)
DigitChar(d) == <<"0", "1", "2", "3", "4", "5", "6", "7", "8", "9">>[d + 1]

RECURSIVE Decimal(_)
Decimal(n) ==
    IF n < 10 THEN <<DigitChar(n)>>
    ELSE Append(Decimal(n \div 10), DigitChar(n % 10))

Min(a, b) == IF a < b THEN a ELSE b

\* faulty variant, for mutation analysis: "%u" without the newline
FormatNoNewline(level) ==
    LET s == Decimal(level)
    IN  SubSeq(s, 1, Min(Len(s), CO2METER_DATA_SIZE - 1))

Format(level) ==
    LET s == Append(Decimal(level), "\n")
    IN  SubSeq(s, 1, Min(Len(s), CO2METER_DATA_SIZE - 1))

NoData == [buf |-> <<>>, buf_size |-> 0, set |-> FALSE]
FileData(level) ==
    [buf |-> Format(level), buf_size |-> Len(Format(level)), set |-> TRUE]

(***************************************************************************)
(* simple_read_from_buffer(to, count, ppos, from, available): the bytes    *)
(* copied and the new offset.                                              *)
(***************************************************************************)
ReadBytes(from, available, pos, count) ==
    IF pos >= available THEN <<>>
    ELSE SubSeq(from, pos + 1, pos + Min(count, available - pos))

VARIABLES
    usbpc,          \* where the USB core thread is in probe / disconnect
    gen,            \* DeviceStates allocated so far; the newest is dev gen
    probeRet,       \* what the last co2meter_probe returned
    intfdata,       \* usb_get_intfdata(interface): a DeviceState or 0 (NULL)
    registered,     \* the minor is registered: usb_find_interface finds it
    devst,          \* per DeviceState: "unalloc", "live" or "freed"
    ready,          \* dev->ready
    co2_level,      \* dev->co2_level
    lock,           \* owner of dev->lock
    pending,        \* dev->work_data is queued
    canceling,      \* cancel_work_sync on dev->work_data is in progress
    pollpc,         \* where co2meter_handle_input is, per DeviceState
    xfer,           \* the transfer the executing iteration received
    openpc,         \* where each opener is
    odev,           \* the dev pointer co2meter_open fetched
    oret,           \* what the opener's last co2meter_open returned
    stale,          \* co2meter_open has used a released DeviceState
    private_data,   \* file->private_data
    snapshot,       \* the co2_level read by the open that made the session
    ppos,           \* the file offset
    rret,           \* the bytes the last co2meter_read returned
    scenario        \* history: how far the reference run has got, or -1

usbvars == <<usbpc, gen, probeRet, intfdata, registered>>
devvars == <<devst, ready, co2_level, lock>>
workvars == <<pending, canceling, pollpc, xfer>>
filevars == <<openpc, odev, oret, stale, private_data, snapshot, ppos, rret>>
vars == <<usbvars, devvars, workvars, filevars, scenario>>

(***************************************************************************)
(* History of the run since the last attach.  The variable scenario is     *)
(* written by the steps below and read by none of them: it records how far *)
(* the run has followed the reference run                                  *)
(*   attach, three transfers without an accepted frame, one accepted frame *)
(*   of reading 512, open, reads up to the end of the data, one more read, *)
(*   release, disconnect,                                                  *)
(* in which every allocation succeeds.  0..3: that many transfers without  *)
(* an accepted frame; 4: the reading 512 is stored; 5: open returned 0;    *)
(* 6: the reads have reached the end of the data; 7: one more read         *)
(* returned; 8: release returned; 9: disconnect returned; -1: the run has  *)
(* left the reference run.                                                 *)
(***************************************************************************)
\* usb_bulk_msg returned the transfer x
ScenarioFrame(s, x) ==
    IF s \in 0..2 THEN (IF Accepts(x) THEN -1 ELSE s + 1)
    ELSE IF s = 3 THEN (IF Accepts(x) /\ Reading(x) = 512 THEN 3 ELSE -1)
    ELSE IF s \in 4..8 THEN (IF Accepts(x) /\ Reading(x) # 512 THEN -1 ELSE s)
    ELSE -1

\* the handler stored the reading of an accepted frame
ScenarioStored(s) == IF s = 3 THEN 4 ELSE s

\* a step of co2meter_open before its return
ScenarioOpening(s) == IF s = 4 THEN 4 ELSE -1

\* co2meter_open returned 0
ScenarioOpened(s) == IF s = 4 THEN 5 ELSE -1

\* co2meter_read returned; atEnd: the offset has reached the end of the data
ScenarioRead(s, atEnd) ==
    IF s = 5 THEN (IF atEnd THEN 6 ELSE 5)
    ELSE IF s \in {6, 7} THEN 7
    ELSE -1

\* co2meter_release returned
ScenarioReleased(s) == IF s = 7 THEN 8 ELSE -1

\* co2meter_disconnect was called
ScenarioDetaching(s) == IF s = 8 THEN 8 ELSE -1

\* co2meter_disconnect returned
ScenarioDetached(s) == IF s = 8 THEN 9 ELSE s

Init ==
    /\ usbpc = "detached"
    /\ gen = 0
    /\ probeRet = "none"
    /\ intfdata = 0
    /\ registered = FALSE
    /\ devst = [g \in Gens |-> "unalloc"]
    /\ ready = [g \in Gens |-> 0]
    /\ co2_level = [g \in Gens |-> 0]
    /\ lock = [g \in Gens |-> NoOwner]
    /\ pending = [g \in Gens |-> FALSE]
    /\ canceling = [g \in Gens |-> FALSE]
    /\ pollpc = [g \in Gens |-> "idle"]
    /\ xfer = [g \in Gens |-> NoXfer]
    /\ openpc = [f \in Files |-> "closed"]
    /\ odev = [f \in Files |-> 0]
    /\ oret = [f \in Files |-> "none"]
    /\ stale = [f \in Files |-> FALSE]
    /\ private_data = [f \in Files |-> NoData]
    /\ snapshot = [f \in Files |-> 0]
    /\ ppos = [f \in Files |-> 0]
    /\ rret = [f \in Files |-> <<>>]
    /\ scenario = -1

(***************************************************************************)
(* The scheduling collaborator.  schedule_work queues the work item unless *)
(* it is already queued; while cancel_work_sync holds the item, queueing   *)
(* fails.  A queued item starts when no iteration of it is executing.      *)
(***************************************************************************)
ScheduleWork(g) ==
    IF pending[g] \/ canceling[g] THEN pending
    ELSE [pending EXCEPT ![g] = TRUE]

WorkerStart(g) ==
    /\ pending[g]
    /\ pollpc[g] = "idle"
    /\ pending' = [pending EXCEPT ![g] = FALSE]
    /\ pollpc' = [pollpc EXCEPT ![g] = "lock"]
    /\ UNCHANGED <<usbvars, devvars, canceling, xfer, filevars>>
    /\ UNCHANGED scenario

(***************************************************************************)
(* co2meter_handle_input, one step per statement that touches the guard,   *)
(* the cache or the work item.                                             *)
(***************************************************************************)
\* mutex_lock(&dev->lock) at the top of the iteration
HandleInputLock(g) ==
    /\ pollpc[g] = "lock"
    /\ lock[g] = NoOwner
    /\ lock' = [lock EXCEPT ![g] = WorkOwner]
    /\ pollpc' = [pollpc EXCEPT ![g] = "alloc"]
    /\ UNCHANGED <<usbvars, devst, ready, co2_level, pending, canceling, xfer,
                   filevars>>
    /\ UNCHANGED scenario

\* kzalloc fails: dev_err, schedule_work, return (the guard is not released)
HandleInputAllocFail(g) ==
    /\ pollpc[g] = "alloc"
    /\ pending' = ScheduleWork(g)
    /\ pollpc' = [pollpc EXCEPT ![g] = "idle"]
    /\ UNCHANGED <<usbvars, devvars, canceling, xfer, filevars>>
    /\ scenario' = -1

\* kzalloc succeeds
HandleInputAllocOk(g) ==
    /\ pollpc[g] = "alloc"
    /\ pollpc' = [pollpc EXCEPT ![g] = "unlock"]
    /\ UNCHANGED <<usbvars, devvars, pending, canceling, xfer, filevars>>
    /\ UNCHANGED scenario

\* faulty variant, for mutation analysis: the guard is kept across the
\* transfer
HandleInputKeepLock(g) ==
    /\ pollpc[g] = "unlock"
    /\ pollpc' = [pollpc EXCEPT ![g] = "bulk"]
    /\ UNCHANGED <<usbvars, devvars, pending, canceling, xfer, filevars>>
    /\ UNCHANGED scenario

\* udev and ep_addr are read, mutex_unlock(&dev->lock), usb_bulk_msg is entered
HandleInputUnlock(g) ==
    /\ pollpc[g] = "unlock"
    /\ lock' = [lock EXCEPT ![g] = NoOwner]
    /\ pollpc' = [pollpc EXCEPT ![g] = "bulk"]
    /\ UNCHANGED <<usbvars, devst, ready, co2_level, pending, canceling, xfer,
                   filevars>>
    /\ UNCHANGED scenario

\* usb_bulk_msg returns and the frame is decoded
HandleInputBulk(g) ==
    /\ pollpc[g] = "bulk"
    /\ \E x \in Transfers :
          /\ xfer' = [xfer EXCEPT ![g] = x]
          /\ pollpc' = [pollpc EXCEPT ![g] =
                            IF Accepts(x) THEN "wlock" ELSE "resched"]
    /\ UNCHANGED <<usbvars, devvars, pending, canceling, filevars>>
    /\ scenario' = ScenarioFrame(scenario, xfer'[g])

\* faulty variant, for mutation analysis: the cache is written without the
\* guard
HandleInputNoWLock(g) ==
    /\ pollpc[g] = "wlock"
    /\ pollpc' = [pollpc EXCEPT ![g] = "wready"]
    /\ UNCHANGED <<usbvars, devvars, pending, canceling, xfer, filevars>>
    /\ UNCHANGED scenario

\* mutex_lock(&dev->lock) of an accepted frame
HandleInputWLock(g) ==
    /\ pollpc[g] = "wlock"
    /\ lock[g] = NoOwner
    /\ lock' = [lock EXCEPT ![g] = WorkOwner]
    /\ pollpc' = [pollpc EXCEPT ![g] = "wready"]
    /\ UNCHANGED <<usbvars, devst, ready, co2_level, pending, canceling, xfer,
                   filevars>>
    /\ UNCHANGED scenario

\* faulty variant, for mutation analysis: the ready flag is not set
HandleInputSkipReady(g) ==
    /\ pollpc[g] = "wready"
    /\ pollpc' = [pollpc EXCEPT ![g] = "wlevel"]
    /\ UNCHANGED <<usbvars, devvars, pending, canceling, xfer, filevars>>
    /\ UNCHANGED scenario

\* dev->ready = 1
HandleInputSetReady(g) ==
    /\ pollpc[g] = "wready"
    /\ ready' = [ready EXCEPT ![g] = 1]
    /\ pollpc' = [pollpc EXCEPT ![g] = "wlevel"]
    /\ UNCHANGED <<usbvars, devst, co2_level, lock, pending, canceling, xfer,
                   filevars>>
    /\ UNCHANGED scenario

\* dev->co2_level = (buf[1] * 256) + buf[2]; mutex_unlock(&dev->lock)
HandleInputSetLevel(g) ==
    /\ pollpc[g] = "wlevel"
    /\ co2_level' = [co2_level EXCEPT ![g] = Reading(xfer[g])]
    /\ lock' = [lock EXCEPT ![g] = NoOwner]
    /\ pollpc' = [pollpc EXCEPT ![g] = "resched"]
    /\ UNCHANGED <<usbvars, devst, ready, pending, canceling, xfer, filevars>>
    /\ scenario' = ScenarioStored(scenario)

\* kfree(buf); schedule_work(&dev->work_data); return
HandleInputResched(g) ==
    /\ pollpc[g] = "resched"
    /\ pending' = ScheduleWork(g)
    /\ pollpc' = [pollpc EXCEPT ![g] = "idle"]
    /\ xfer' = [xfer EXCEPT ![g] = NoXfer]
    /\ UNCHANGED <<usbvars, devvars, canceling, filevars>>
    /\ UNCHANGED scenario

HandleInput(g) ==
    \/ HandleInputLock(g)
    \/ HandleInputAllocFail(g)
    \/ HandleInputAllocOk(g)
    \/ HandleInputUnlock(g)
    \/ HandleInputBulk(g)
    \/ HandleInputWLock(g)
    \/ HandleInputSetReady(g)
    \/ HandleInputSetLevel(g)
    \/ HandleInputResched(g)

(***************************************************************************)
(* co2meter_probe, run by the USB core thread.                             *)
(***************************************************************************)
\* co2meter_delete(dev): kfree.  The memory's content is no longer the
\* program's; the model keeps a fixed content for a released DeviceState.
Delete(g) ==
    /\ devst' = [devst EXCEPT ![g] = "freed"]
    /\ ready' = [ready EXCEPT ![g] = 0]
    /\ co2_level' = [co2_level EXCEPT ![g] = 0]
    /\ lock' = [lock EXCEPT ![g] = NoOwner]

\* kzalloc of the DeviceState fails
ProbeAllocFail ==
    /\ usbpc = "detached"
    /\ gen < MaxAttach
    /\ probeRet' = "ENOMEM"
    /\ UNCHANGED <<usbpc, gen, intfdata, registered, devvars, workvars,
                   filevars>>
    /\ UNCHANGED scenario

\* kzalloc, mutex_init, ready = 0, active_interface, active_device
ProbeAlloc ==
    /\ usbpc = "detached"
    /\ gen < MaxAttach
    /\ gen' = gen + 1
    /\ devst' = [devst EXCEPT ![gen + 1] = "live"]
    /\ ready' = [ready EXCEPT ![gen + 1] = 0]
    /\ co2_level' = [co2_level EXCEPT ![gen + 1] = 0]
    /\ lock' = [lock EXCEPT ![gen + 1] = NoOwner]
    /\ probeRet' = "none"
    /\ usbpc' = "p_endpoints"
    /\ UNCHANGED <<intfdata, registered, workvars, filevars>>
    /\ scenario' = IF \A f \in Files : openpc[f] = "closed" THEN 0 ELSE -1

\* usb_find_common_endpoints finds no bulk-in endpoint
ProbeNoEndpoint ==
    /\ usbpc = "p_endpoints"
    /\ Delete(gen)
    /\ probeRet' = "ENXIO"
    /\ usbpc' = "detached"
    /\ UNCHANGED <<gen, intfdata, registered, workvars, filevars>>
    /\ scenario' = -1

ProbeEndpointFound ==
    /\ usbpc = "p_endpoints"
    /\ usbpc' = "p_register"
    /\ UNCHANGED <<gen, probeRet, intfdata, registered, devvars, workvars,
                   filevars>>
    /\ UNCHANGED scenario

\* faulty variant, for mutation analysis: the error path returns without
\* co2meter_delete
ProbeRegisterFailLeak ==
    /\ usbpc = "p_register"
    /\ probeRet' = "EXFULL"
    /\ usbpc' = "detached"
    /\ UNCHANGED <<gen, intfdata, registered, devvars, workvars, filevars>>
    /\ scenario' = -1

\* usb_register_dev fails
ProbeRegisterFail ==
    /\ usbpc = "p_register"
    /\ Delete(gen)
    /\ probeRet' = "EXFULL"
    /\ usbpc' = "detached"
    /\ UNCHANGED <<gen, intfdata, registered, workvars, filevars>>
    /\ scenario' = -1

\* usb_register_dev succeeds: the node exists from here on
ProbeRegister ==
    /\ usbpc = "p_register"
    /\ registered' = TRUE
    /\ usbpc' = "p_setdata"
    /\ UNCHANGED <<gen, probeRet, intfdata, devvars, workvars, filevars>>
    /\ UNCHANGED scenario

\* usb_set_intfdata(interface, dev)
ProbeSetIntfdata ==
    /\ usbpc = "p_setdata"
    /\ intfdata' = gen
    /\ usbpc' = "p_work"
    /\ UNCHANGED <<gen, probeRet, registered, devvars, workvars, filevars>>
    /\ UNCHANGED scenario

\* INIT_WORK; schedule_work; return 0
ProbeScheduleWork ==
    /\ usbpc = "p_work"
    /\ pending' = [pending EXCEPT ![gen] = TRUE]
    /\ probeRet' = "OK"
    /\ usbpc' = "attached"
    /\ UNCHANGED <<gen, intfdata, registered, devvars, canceling, pollpc, xfer,
                   filevars>>
    /\ UNCHANGED scenario

Probe ==
    \/ ProbeAllocFail
    \/ ProbeAlloc
    \/ ProbeNoEndpoint
    \/ ProbeEndpointFound
    \/ ProbeRegisterFail
    \/ ProbeRegister
    \/ ProbeSetIntfdata
    \/ ProbeScheduleWork

(***************************************************************************)
(* co2meter_disconnect, run by the USB core thread.                        *)
(***************************************************************************)
\* faulty variant, for mutation analysis: the work item is not cancelled
DisconnectNoCancel ==
    /\ usbpc = "attached"
    /\ usbpc' = "d_lock"
    /\ UNCHANGED <<gen, probeRet, intfdata, registered, devvars, workvars,
                   filevars>>
    /\ scenario' = ScenarioDetaching(scenario)

\* dev = usb_get_intfdata; cancel_work_sync takes the item off the queue
DisconnectCancelBegin ==
    /\ usbpc = "attached"
    /\ pending' = [pending EXCEPT ![intfdata] = FALSE]
    /\ canceling' = [canceling EXCEPT ![intfdata] = TRUE]
    /\ usbpc' = "d_wait"
    /\ UNCHANGED <<gen, probeRet, intfdata, registered, devvars, pollpc, xfer,
                   filevars>>
    /\ scenario' = ScenarioDetaching(scenario)

\* faulty variant, for mutation analysis: cancel_work, which does not wait
\* for the executing iteration
DisconnectCancelNoWait ==
    /\ usbpc = "d_wait"
    /\ canceling' = [canceling EXCEPT ![intfdata] = FALSE]
    /\ usbpc' = "d_lock"
    /\ UNCHANGED <<gen, probeRet, intfdata, registered, devvars, pending,
                   pollpc, xfer, filevars>>
    /\ UNCHANGED scenario

\* cancel_work_sync returns once no iteration is executing
DisconnectCancelWait ==
    /\ usbpc = "d_wait"
    /\ pollpc[intfdata] = "idle"
    /\ canceling' = [canceling EXCEPT ![intfdata] = FALSE]
    /\ usbpc' = "d_lock"
    /\ UNCHANGED <<gen, probeRet, intfdata, registered, devvars, pending,
                   pollpc, xfer, filevars>>
    /\ UNCHANGED scenario

\* mutex_lock(&dev->lock)
DisconnectLock ==
    /\ usbpc = "d_lock"
    /\ lock[intfdata] = NoOwner
    /\ lock' = [lock EXCEPT ![intfdata] = UsbOwner]
    /\ usbpc' = "d_deregister"
    /\ UNCHANGED <<gen, probeRet, intfdata, registered, devst, ready,
                   co2_level, workvars, filevars>>
    /\ UNCHANGED scenario

\* usb_deregister_dev
DisconnectDeregister ==
    /\ usbpc = "d_deregister"
    /\ registered' = FALSE
    /\ usbpc' = "d_delete"
    /\ UNCHANGED <<gen, probeRet, intfdata, devvars, workvars, filevars>>
    /\ UNCHANGED scenario

\* dev = usb_get_intfdata; co2meter_delete(dev); return
DisconnectDelete ==
    /\ usbpc = "d_delete"
    /\ Delete(intfdata)
    /\ usbpc' = "d_unbind"
    /\ UNCHANGED <<gen, probeRet, intfdata, registered, workvars, filevars>>
    /\ scenario' = ScenarioDetached(scenario)

\* after disconnect returns the USB core clears the interface data
UsbUnbind ==
    /\ usbpc = "d_unbind"
    /\ intfdata' = 0
    /\ usbpc' = "detached"
    /\ UNCHANGED <<gen, probeRet, registered, devvars, workvars, filevars>>
    /\ UNCHANGED scenario

Disconnect ==
    \/ DisconnectCancelBegin
    \/ DisconnectCancelWait
    \/ DisconnectLock
    \/ DisconnectDeregister
    \/ DisconnectDelete
    \/ UsbUnbind

(***************************************************************************)
(* co2meter_open.  A dev pointer fetched before co2meter_disconnect        *)
(* released the DeviceState still points at the released memory: what is   *)
(* read through it is any of the values such memory may hold.              *)
(***************************************************************************)
\* the values dev->ready / dev->co2_level show to opener f
ReadyValues(f) ==
    IF stale[f] THEN {0, 1} ELSE {ready[odev[f]]}

LevelValues(f) ==
    IF stale[f] THEN FreedWords ELSE {co2_level[odev[f]]}

\* mutex_unlock(&dev->lock) by opener f
OpenUnlock(f) ==
    IF stale[f] THEN lock ELSE [lock EXCEPT ![odev[f]] = NoOwner]

\* usb_find_interface finds no interface: return -ENODEV
OpenNoInterface(f) ==
    /\ openpc[f] = "closed"
    /\ ~registered
    /\ oret' = [oret EXCEPT ![f] = "ENODEV"]
    /\ odev' = [odev EXCEPT ![f] = 0]
    /\ stale' = [stale EXCEPT ![f] = FALSE]
    /\ UNCHANGED <<usbvars, devvars, workvars, openpc, private_data, snapshot,
                   ppos, rret>>
    /\ scenario' = ScenarioOpening(scenario)

\* usb_find_interface finds the interface
OpenFindInterface(f) ==
    /\ openpc[f] = "closed"
    /\ registered
    /\ openpc' = [openpc EXCEPT ![f] = "getdata"]
    /\ oret' = [oret EXCEPT ![f] = "none"]
    /\ odev' = [odev EXCEPT ![f] = 0]
    /\ stale' = [stale EXCEPT ![f] = FALSE]
    /\ UNCHANGED <<usbvars, devvars, workvars, private_data, snapshot, ppos,
                   rret>>
    /\ scenario' = ScenarioOpening(scenario)

\* dev = usb_get_intfdata(interface)
OpenGetIntfdata(f) ==
    /\ openpc[f] = "getdata"
    /\ odev' = [odev EXCEPT ![f] = intfdata]
    /\ openpc' = [openpc EXCEPT ![f] = "lock"]
    /\ UNCHANGED <<usbvars, devvars, workvars, oret, stale, private_data,
                   snapshot, ppos, rret>>
    /\ scenario' = ScenarioOpening(scenario)

\* mutex_lock(&dev->lock) with dev == NULL: the opener faults
OpenLockNull(f) ==
    /\ openpc[f] = "lock"
    /\ odev[f] = 0
    /\ openpc' = [openpc EXCEPT ![f] = "oops"]
    /\ UNCHANGED <<usbvars, devvars, workvars, odev, oret, stale, private_data,
                   snapshot, ppos, rret>>
    /\ scenario' = ScenarioOpening(scenario)

\* mutex_lock(&dev->lock) on a released DeviceState: the opener either gets
\* what it takes for the guard or sleeps on it for ever
OpenLockFreed(f) ==
    /\ openpc[f] = "lock"
    /\ odev[f] # 0
    /\ devst[odev[f]] = "freed"
    /\ stale' = [stale EXCEPT ![f] = TRUE]
    /\ \E next \in {"check", "hung"} :
          openpc' = [openpc EXCEPT ![f] = next]
    /\ UNCHANGED <<usbvars, devvars, workvars, odev, oret, private_data,
                   snapshot, ppos, rret>>
    /\ scenario' = ScenarioOpening(scenario)

\* mutex_lock(&dev->lock)
OpenLock(f) ==
    /\ openpc[f] = "lock"
    /\ odev[f] # 0
    /\ devst[odev[f]] = "live"
    /\ lock[odev[f]] = NoOwner
    /\ lock' = [lock EXCEPT ![odev[f]] = OpenOwner(f)]
    /\ openpc' = [openpc EXCEPT ![f] = "check"]
    /\ UNCHANGED <<usbvars, devst, ready, co2_level, workvars, odev, oret,
                   stale, private_data, snapshot, ppos, rret>>
    /\ scenario' = ScenarioOpening(scenario)

\* faulty variant, for mutation analysis: the ready flag is not looked at
OpenCheckNothing(f) ==
    /\ openpc[f] = "check"
    /\ openpc' = [openpc EXCEPT ![f] = "format"]
    /\ UNCHANGED <<usbvars, devvars, workvars, odev, oret, stale, private_data,
                   snapshot, ppos, rret>>
    /\ scenario' = ScenarioOpening(scenario)

\* if (!dev->ready) { mutex_unlock(&dev->lock); return -ENODEV; }
OpenCheckReady(f) ==
    /\ openpc[f] = "check"
    /\ \E r \in ReadyValues(f) :
          IF r = 0
          THEN /\ lock' = OpenUnlock(f)
               /\ oret' = [oret EXCEPT ![f] = "ENODEV"]
               /\ openpc' = [openpc EXCEPT ![f] = "closed"]
          ELSE /\ openpc' = [openpc EXCEPT ![f] = "format"]
               /\ UNCHANGED <<lock, oret>>
    /\ UNCHANGED <<usbvars, devst, ready, co2_level, workvars, odev, stale,
                   private_data, snapshot, ppos, rret>>
    /\ scenario' = ScenarioOpening(scenario)

\* kzalloc of the session returns NULL and file_data->buf_size is written:
\* the opener faults, holding the guard
OpenFormatAllocFail(f) ==
    /\ openpc[f] = "format"
    /\ openpc' = [openpc EXCEPT ![f] = "oops"]
    /\ UNCHANGED <<usbvars, devvars, workvars, odev, oret, stale, private_data,
                   snapshot, ppos, rret>>
    /\ scenario' = -1

\* faulty variant, for mutation analysis: a successful open consumes the
\* reading by clearing the ready flag
OpenFormatConsume(f) ==
    /\ openpc[f] = "format"
    /\ \E v \in LevelValues(f) :
          /\ private_data' = [private_data EXCEPT ![f] = FileData(v)]
          /\ snapshot' = [snapshot EXCEPT ![f] = v]
    /\ lock' = OpenUnlock(f)
    /\ ready' = [ready EXCEPT ![odev[f]] = 0]
    /\ oret' = [oret EXCEPT ![f] = "OK"]
    /\ openpc' = [openpc EXCEPT ![f] = "opened"]
    /\ ppos' = [ppos EXCEPT ![f] = 0]
    /\ rret' = [rret EXCEPT ![f] = <<>>]
    /\ odev' = [odev EXCEPT ![f] = 0]
    /\ UNCHANGED <<usbvars, devst, co2_level, workvars, stale>>
    /\ scenario' = ScenarioOpened(scenario)

\* kzalloc, scnprintf, file->private_data = file_data, mutex_unlock, return 0
OpenFormat(f) ==
    /\ openpc[f] = "format"
    /\ \E v \in LevelValues(f) :
          /\ private_data' = [private_data EXCEPT ![f] = FileData(v)]
          /\ snapshot' = [snapshot EXCEPT ![f] = v]
    /\ lock' = OpenUnlock(f)
    /\ oret' = [oret EXCEPT ![f] = "OK"]
    /\ openpc' = [openpc EXCEPT ![f] = "opened"]
    /\ ppos' = [ppos EXCEPT ![f] = 0]
    /\ rret' = [rret EXCEPT ![f] = <<>>]
    /\ odev' = [odev EXCEPT ![f] = 0]
    /\ UNCHANGED <<usbvars, devst, ready, co2_level, workvars, stale>>
    /\ scenario' = ScenarioOpened(scenario)

Open(f) ==
    \/ OpenNoInterface(f)
    \/ OpenFindInterface(f)
    \/ OpenGetIntfdata(f)
    \/ OpenLockNull(f)
    \/ OpenLockFreed(f)
    \/ OpenLock(f)
    \/ OpenCheckReady(f)
    \/ OpenFormatAllocFail(f)
    \/ OpenFormat(f)

(***************************************************************************)
(* co2meter_read and co2meter_release, called on a file whose open         *)
(* returned 0.                                                             *)
(***************************************************************************)
\* faulty variant, for mutation analysis: the text is formatted again from
\* the device at each read
ReadFresh(f, count) ==
    IF intfdata # 0
    THEN ReadBytes(Format(co2_level[intfdata]),
                   Len(Format(co2_level[intfdata])), ppos[f], count)
    ELSE <<>>

\* faulty variant, for mutation analysis: a read looks for the DeviceState
\* and returns no data once it is gone
ReadWhileAttached(f, count) ==
    IF intfdata # 0 /\ devst[intfdata] = "live"
    THEN ReadBytes(private_data[f].buf, private_data[f].buf_size, ppos[f],
                   count)
    ELSE <<>>

\* simple_read_from_buffer(buffer, count, ppos, file_data->buf, buf_size)
ReadResult(f, count) ==
    ReadBytes(private_data[f].buf, private_data[f].buf_size, ppos[f], count)

Read(f) ==
    /\ openpc[f] = "opened"
    /\ \E count \in ReadCounts :
          IF ~private_data[f].set
          THEN /\ rret' = [rret EXCEPT ![f] = <<"ENODEV">>]
               /\ UNCHANGED ppos
          ELSE /\ rret' = [rret EXCEPT ![f] = ReadResult(f, count)]
               /\ ppos' = [ppos EXCEPT ![f] = @ + Len(ReadResult(f, count))]
    /\ UNCHANGED <<usbvars, devvars, workvars, openpc, odev, oret, stale,
                   private_data, snapshot>>
    /\ scenario' = ScenarioRead(scenario, ppos'[f] = private_data[f].buf_size)

\* kfree(file->private_data); return 0.  The file is gone.
Release(f) ==
    /\ openpc[f] = "opened"
    /\ private_data' = [private_data EXCEPT ![f] = NoData]
    /\ openpc' = [openpc EXCEPT ![f] = "closed"]
    /\ oret' = [oret EXCEPT ![f] = "none"]
    /\ odev' = [odev EXCEPT ![f] = 0]
    /\ stale' = [stale EXCEPT ![f] = FALSE]
    /\ snapshot' = [snapshot EXCEPT ![f] = 0]
    /\ ppos' = [ppos EXCEPT ![f] = 0]
    /\ rret' = [rret EXCEPT ![f] = <<>>]
    /\ UNCHANGED <<usbvars, devvars, workvars>>
    /\ scenario' = ScenarioReleased(scenario)

Next ==
    \/ Probe
    \/ Disconnect
    \/ \E g \in Gens : WorkerStart(g) \/ HandleInput(g)
    \/ \E f \in Files : Open(f) \/ Read(f) \/ Release(f)

Spec == Init /\ [][Next]_vars

(***************************************************************************)
(* Fair scheduling.  The workqueue runs a queued item and the handler runs *)
(* on; a mutex that is free again and again is eventually granted to a     *)
(* waiter; an allocation that is tried again and again eventually          *)
(* succeeds; an opener that holds the guard runs on.                       *)
(***************************************************************************)
FairSpec ==
    /\ Spec
    /\ \A g \in Gens :
          /\ WF_vars(WorkerStart(g))
          /\ WF_vars(HandleInput(g))
          /\ SF_vars(HandleInputLock(g))
          /\ SF_vars(HandleInputWLock(g))
          /\ SF_vars(HandleInputAllocOk(g))
    /\ \A f \in Files :
          /\ WF_vars(OpenCheckReady(f))
          /\ WF_vars(OpenFormat(f))
    /\ WF_vars(DisconnectCancelWait)
    /\ SF_vars(DisconnectLock)
    /\ WF_vars(DisconnectDeregister)
    /\ WF_vars(DisconnectDelete)
    /\ WF_vars(UsbUnbind)

(***************************************************************************)
(* The claims.                                                             *)
(***************************************************************************)

\* the frames the decoder accepts, and their readings
ValidReadings == {Reading(x) : x \in {y \in Transfers : Accepts(y)}}

\* C1: a DeviceState is released only once its poll iteration has fully
\* finished and none is queued: for a released DeviceState the handler is
\* not executing and the work item is not queued, so no step of
\* co2meter_handle_input happens on it.
C1_ReleasedOnlyAfterPollStopped ==
    \A g \in Gens :
        devst[g] = "freed" => (pollpc[g] = "idle" /\ ~pending[g])

\* C1 witness: co2meter_disconnect has released the DeviceState of a device
\* whose poll loop had run and decoded a reading (a session holds it).
C1_Witness ==
    /\ usbpc = "d_unbind"
    /\ probeRet = "OK"
    /\ devst[intfdata] = "freed"
    /\ \E f \in Files :
          openpc[f] = "opened" /\ ~stale[f] /\ snapshot[f] \in ValidReadings

\* C2: co2meter_open never takes the guard of, nor reads ready / co2_level
\* from, a DeviceState that has been released, whatever the interleaving
\* with co2meter_disconnect.
C2_OpenNeverUsesReleased ==
    \A f \in Files :
        openpc[f] \in {"check", "format", "hung"} =>
            (~stale[f] /\ devst[odev[f]] = "live")

\* C3: an iteration that reaches the buffer allocation is followed, under
\* fair scheduling, by a transfer being issued (by it or by a later
\* iteration), unless the device is being detached or an opener has died
\* holding the guard: an allocation failure does not stall the loop.
C3_AllocFailureDoesNotStall ==
    \A g \in Gens :
        (pollpc[g] = "alloc")
            ~> (\/ pollpc[g] = "bulk"
                \/ usbpc # "attached"
                \/ \E f \in Files : openpc[f] = "oops")

\* C4: while co2meter_handle_input is inside usb_bulk_msg the work item does
\* not own the guard.
C4_NoTransferUnderGuard ==
    \A g \in Gens : pollpc[g] = "bulk" => lock[g] # WorkOwner

\* C4 witness: an opener holds the guard of the device while the transfer
\* of a poll iteration is in progress.
C4_Witness ==
    \E g \in Gens, f \in Files :
        /\ pollpc[g] = "bulk"
        /\ openpc[f] = "check"
        /\ odev[f] = g
        /\ lock[g] = OpenOwner(f)

\* C5: on a DeviceState that has not been released, the handler writes
\* ready / co2_level only with the guard held, co2meter_open reads them only
\* with the guard held, and the text of a session is the formatted reading
\* of a frame the decoder accepted.
C5_NoTornCache ==
    /\ \A g \in Gens :
          pollpc[g] \in {"wready", "wlevel"} => lock[g] = WorkOwner
    /\ \A f \in Files :
          (openpc[f] \in {"check", "format"} /\ ~stale[f]) =>
              lock[odev[f]] = OpenOwner(f)
    /\ \A f \in Files :
          (openpc[f] = "opened" /\ ~stale[f]) =>
              \E v \in ValidReadings : private_data[f].buf = Format(v)

\* C5 witness: an opener formats the cached reading 400 under the guard
\* while the handler waits for the guard with the next reading, 512.
C5_Witness ==
    \E g \in Gens, f \in Files :
        /\ openpc[f] = "format"
        /\ odev[f] = g
        /\ ~stale[f]
        /\ co2_level[g] = 400
        /\ pollpc[g] = "wlock"
        /\ Reading(xfer[g]) = 512

\* C6: over attach, poll iterations and detach, repeated, at most one
\* iteration of co2meter_handle_input executes and at most one is queued,
\* and only for the DeviceState of the attached device.
C6_OnePoller ==
    /\ Cardinality({g \in Gens : pollpc[g] # "idle"}) <= 1
    /\ Cardinality({g \in Gens : pending[g]}) <= 1
    /\ \A g \in Gens : (pending[g] \/ pollpc[g] # "idle") => g = intfdata

\* C6 witness: a session of the first attach (the second DeviceState has
\* decoded nothing yet) is still open while the poll loop of the second
\* attach is in its transfer.
C6_Witness ==
    /\ gen = 2
    /\ usbpc = "attached"
    /\ pollpc[2] = "bulk"
    /\ ready[2] = 0
    /\ \E f \in Files :
          openpc[f] = "opened" /\ ~stale[f] /\ snapshot[f] \in ValidReadings

\* C7: when co2meter_open, holding the guard of a DeviceState that has not
\* been released, finds ready false, it returns -ENODEV, leaves no session
\* and no longer owns the guard.
C7_NotReadyFails ==
    [][\A f \in Files :
          (/\ openpc[f] = "check"
           /\ ~stale[f]
           /\ ready[odev[f]] = 0
           /\ openpc'[f] # "check")
          => (/\ openpc'[f] = "closed"
              /\ oret'[f] = "ENODEV"
              /\ private_data'[f] = NoData
              /\ lock'[odev[f]] # OpenOwner(f))]_vars

\* C7 witness: an open of an attached device that is not ready has returned
\* -ENODEV, with no session and the guard free.
C7_Witness ==
    \E f \in Files :
        /\ openpc[f] = "closed"
        /\ oret[f] = "ENODEV"
        /\ odev[f] # 0
        /\ ~stale[f]
        /\ devst[odev[f]] = "live"
        /\ ready[odev[f]] = 0
        /\ lock[odev[f]] = NoOwner
        /\ private_data[f] = NoData

\* C8: the bytes a read of a session returns are the bytes of the text
\* formatted at open time that end at the file offset, whatever co2_level
\* holds by then.
C8_SnapshotIsolation ==
    \A f \in Files :
        openpc[f] = "opened" =>
            /\ ppos[f] <= Len(Format(snapshot[f]))
            /\ Len(rret[f]) <= ppos[f]
            /\ rret[f] = SubSeq(Format(snapshot[f]),
                                ppos[f] - Len(rret[f]) + 1, ppos[f])

\* C8 witness: a read has returned bytes of a session opened at reading 400
\* while the device's cache holds 512.
C8_Witness ==
    \E f \in Files :
        /\ openpc[f] = "opened"
        /\ ~stale[f]
        /\ snapshot[f] = 400
        /\ Len(rret[f]) > 0
        /\ intfdata # 0
        /\ co2_level[intfdata] = 512

\* a frame that is valid when the checksum is compared modulo 256
ValidMod256(x) ==
    /\ x.retval = 0
    /\ x.size >= 5
    /\ x.b[1] = 80
    /\ x.b[5] = 13
    /\ x.b[4] = (x.b[1] + x.b[2] + x.b[3]) % ByteMod

\* C9: a frame of length >= 5 with byte[0] = 0x50, byte[4] = 0x0d and
\* byte[3] = (byte[0] + byte[1] + byte[2]) mod 256 is accepted: the
\* iteration that received it ends with ready set and co2_level its reading.
C9_ChecksumWraps ==
    \A g \in Gens :
        (pollpc[g] = "resched" /\ ValidMod256(xfer[g])) =>
            (ready[g] = 1 /\ co2_level[g] = Reading(xfer[g]))

\* a frame the claim says is rejected; a checksum that differs modulo 256
\* also differs as an integer, so the integer comparison covers both
Rejected(x) ==
    \/ x.retval # 0
    \/ x.size < 5
    \/ x.b[1] # 80
    \/ x.b[1] + x.b[2] + x.b[3] # x.b[4]
    \/ x.b[5] # 13

\* C10: an iteration whose transfer failed or whose frame is too short, has
\* a wrong header, checksum or terminator goes straight to rescheduling and
\* no step taken while it holds that frame changes ready or co2_level.
C10_RejectedLeavesCache ==
    [][\A g \in Gens :
          (xfer[g] # NoXfer /\ Rejected(xfer[g])) =>
              /\ pollpc[g] = "resched"
              /\ ready'[g] = ready[g]
              /\ co2_level'[g] = co2_level[g]]_vars

\* C10 witness: an iteration has rejected a frame while the cache holds 512.
C10_Witness ==
    \E g \in Gens :
        /\ pollpc[g] = "resched"
        /\ Rejected(xfer[g])
        /\ ready[g] = 1
        /\ co2_level[g] = 512


\* C11 as stated: the iteration that received the frame
\* [0x50, 0x01, 0x90, 0x91, 0x0d] with transfer length 5 ends with the
\* frame accepted and the reading 400 in the cache.
C11_FixtureAsWritten ==
    \A g \in Gens :
        (pollpc[g] = "resched"
            /\ xfer[g] = Xfer(0, 5, <<80, 1, 144, 145, 13>>)) =>
            (ready[g] = 1 /\ co2_level[g] = 400)

\* C11 amended: the iteration that received the frame
\* [0x50, 0x01, 0x90, 0xE1, 0x0d] (byte[3] the sum 0x50 + 0x01 + 0x90) with
\* transfer length 5 ends with the frame accepted and the reading
\* 1 * 256 + 0x90 = 400 in the cache.
C11_FixtureWithChecksum ==
    \A g \in Gens :
        (pollpc[g] = "resched"
            /\ xfer[g] = Xfer(0, 5, <<80, 1, 144, 225, 13>>)) =>
            (ready[g] = 1 /\ co2_level[g] = 400)

\* C11 witness: an iteration has received the frame with checksum 0xE1 and
\* is about to reschedule.
C11_Witness ==
    \E g \in Gens :
        /\ pollpc[g] = "resched"
        /\ xfer[g] = Xfer(0, 5, <<80, 1, 144, 225, 13>>)
        /\ co2_level[g] = 400

\* C12: an iteration that accepted a frame ends with ready = 1 and
\* co2_level = byte[1] * 256 + byte[2] of that frame, a value in 0..65535,
\* and the handler owns the guard from before the write of ready until
\* after the write of co2_level.
C12_AcceptedFrameCached ==
    \A g \in Gens :
        /\ (pollpc[g] = "resched" /\ Accepts(xfer[g])) =>
              /\ ready[g] = 1
              /\ co2_level[g] = xfer[g].b[2] * 256 + xfer[g].b[3]
              /\ co2_level[g] \in 0..65535
        /\ pollpc[g] = "wlevel" => (ready[g] = 1 /\ lock[g] = WorkOwner)
        /\ pollpc[g] = "wready" => lock[g] = WorkOwner

\* C12 witness: an iteration that accepted the frame of reading 512 has
\* written the cache, which held 400 before, and released the guard.
C12_Witness ==
    \E g \in Gens :
        /\ pollpc[g] = "resched"
        /\ Accepts(xfer[g])
        /\ Reading(xfer[g]) = 512
        /\ co2_level[g] = 512
        /\ lock[g] = NoOwner
        /\ \E f \in Files : openpc[f] = "opened" /\ snapshot[f] = 400


\* C14: when co2meter_probe has failed because no bulk-in endpoint was
\* found or because the node registration failed, it has returned an
\* error, the DeviceState it allocated is released, no poll iteration of
\* it is queued or running, no node is registered and no DeviceState is
\* associated with the interface.
C14_FailedAttachLeavesNothing ==
    (usbpc = "detached" /\ probeRet \in {"ENXIO", "EXFULL"}) =>
        /\ devst[gen] = "freed"
        /\ ~pending[gen]
        /\ pollpc[gen] = "idle"
        /\ ~registered
        /\ intfdata = 0

\* C14 witness: the second attach of the device failed at the node
\* registration, after a first attach that succeeded.
C14_Witness ==
    /\ usbpc = "detached"
    /\ probeRet = "EXFULL"
    /\ gen = 2
    /\ devst[2] = "freed"
    /\ intfdata = 0


\* C15: no step of co2meter_open, co2meter_read or co2meter_release changes
\* ready or co2_level of any DeviceState, and the session text of a
\* successful open is a function of the co2_level it found: the buffer is
\* Format(co2_level) and its length the length of that text, so two opens
\* that find the same co2_level produce the same text and length.
C15_SessionsDoNotMutate ==
    [][\A f \in Files :
          /\ (Open(f) \/ Read(f) \/ Release(f)) =>
                UNCHANGED <<ready, co2_level>>
          /\ (openpc[f] = "format" /\ openpc'[f] = "opened" /\ ~stale[f]) =>
                /\ private_data'[f].buf = Format(co2_level[odev[f]])
                /\ private_data'[f].buf_size =
                      Len(Format(co2_level[odev[f]]))]_vars

\* C15 witness: a session was opened and read to the end while the device
\* stayed ready with the reading the session shows.
C15_Witness ==
    \E f \in Files :
        /\ openpc[f] = "opened"
        /\ oret[f] = "OK"
        /\ ~stale[f]
        /\ intfdata # 0
        /\ ready[intfdata] = 1
        /\ co2_level[intfdata] = 512
        /\ private_data[f].buf = Format(512)
        /\ ppos[f] = private_data[f].buf_size


\* C16: an iteration that has been through the transfer step and is about
\* to reschedule is followed, under fair scheduling and while the device
\* stays attached, by another transfer being issued, unless an opener has
\* died holding the guard: the poll iterations keep occurring.
C16_PollingKeepsOccurring ==
    \A g \in Gens :
        (pollpc[g] = "resched")
            ~> (\/ pollpc[g] = "bulk"
                \/ usbpc # "attached"
                \/ \E f \in Files : openpc[f] = "oops")

\* C17: during the first attach no opener faults on an absent DeviceState:
\* an open that found the registered node either holds the DeviceState or
\* has failed without dereferencing it.
C17_OpenDuringAttachSafe ==
    \A f \in Files :
        (gen = 1 /\ usbpc \in {"p_setdata", "p_work", "attached"}) =>
            ~(openpc[f] = "oops" /\ odev[f] = 0)

\* C18: the guard is never left held by a poll iteration that has
\* returned.
C18_ReturnedIterationHoldsNoGuard ==
    \A g \in Gens : pollpc[g] = "idle" => lock[g] # WorkOwner

\* C19: under fair scheduling co2meter_disconnect, once it has started the
\* cancellation, eventually releases the DeviceState and returns, unless
\* an opener has died holding the guard.
C19_DetachCompletes ==
    (usbpc = "d_wait")
        ~> (usbpc = "d_unbind" \/ \E f \in Files : openpc[f] = "oops")


\* C20: while no DeviceState exists any more, a read of an open session
\* returns the bytes of the text of the snapshot taken at open, from the
\* session's offset, and a release closes the session; neither step
\* touches a DeviceState.
C20_SessionOutlivesDevice ==
    [][\A f \in Files :
          (openpc[f] = "opened" /\ \A g \in Gens : devst[g] # "live") =>
              /\ Read(f) =>
                    /\ \E count \in ReadCounts :
                          rret'[f] = ReadBytes(Format(snapshot[f]),
                                               Len(Format(snapshot[f])),
                                               ppos[f], count)
                    /\ UNCHANGED devvars
              /\ Release(f) =>
                    /\ openpc'[f] = "closed"
                    /\ UNCHANGED devvars]_vars

\* C20 witness: the device is detached and its DeviceState released while
\* a session that was opened on the live device, with the snapshot 512,
\* is still open and has returned all of its text.
C20_Witness ==
    \E f \in Files :
        /\ usbpc = "detached"
        /\ \A g \in Gens : devst[g] # "live"
        /\ openpc[f] = "opened"
        /\ ~stale[f]
        /\ snapshot[f] = 512
        /\ private_data[f].buf = <<"5", "1", "2", "\n">>
        /\ rret[f] = <<"5", "1", "2", "\n">>
        /\ ppos[f] = 4


\* C13: in a run that attaches, receives three transfers without an
\* accepted frame and then an accepted frame of reading 512, opens, reads
\* to the end, closes and detaches, with every allocation succeeding: the
\* open cannot fail (the node is registered, the DeviceState ready, the
\* level 512) and returns 0 with the text "512\n"; every read returns the
\* next bytes of "512\n" and the read after the last of them returns no
\* byte; the release leaves no session; and when disconnect has returned
\* no poll iteration is executing or queued and no DeviceState is live.
C13_EndToEnd ==
    LET text == <<"5", "1", "2", "\n">>
    IN  /\ scenario = 4 =>
              /\ registered
              /\ \A f \in Files :
                    /\ openpc[f] \notin {"oops", "hung"}
                    /\ openpc[f] = "check" => ReadyValues(f) = {1}
                    /\ openpc[f] = "format" => LevelValues(f) = {512}
        /\ scenario \in {5, 6, 7} =>
              \E f \in Files :
                  /\ openpc[f] = "opened"
                  /\ oret[f] = "OK"
                  /\ private_data[f].buf = text
                  /\ private_data[f].buf_size = 4
                  /\ rret[f] = SubSeq(text, ppos[f] - Len(rret[f]) + 1,
                                      ppos[f])
                  /\ scenario = 6 => (ppos[f] = 4 /\ rret[f] # <<>>)
                  /\ scenario = 7 => (ppos[f] = 4 /\ rret[f] = <<>>)
        /\ scenario = 8 =>
              \A f \in Files :
                  openpc[f] # "opened" /\ private_data[f] = NoData
        /\ scenario = 9 =>
              /\ usbpc \in {"d_unbind", "detached"}
              /\ \A g \in Gens :
                    /\ pollpc[g] = "idle"
                    /\ ~pending[g]
                    /\ devst[g] # "live"

\* C13 witness: the whole reference run has happened and the device is
\* detached.
C13_Witness ==
    /\ scenario = 9
    /\ usbpc = "detached"
    /\ gen = 1

=============================================================================
